---- MODULE Spec2Model ----
(***************************************************************************)
(* Model of composer/hwc_tonemapper.cpp: ToneMapSession (one tone-map      *)
(* configuration, a pool of intermediate buffers, a GPU engine handle) and *)
(* HWCToneMapper (the ordered collection of sessions, the remembered       *)
(* frame-buffer session index, the frame-dump counter).                    *)
(*                                                                         *)
(* Indices are the code's: sessions, layers and buffer slots are numbered  *)
(* from 0, and element i of a vector is element i + 1 of the sequence that *)
(* models it.  A fence is the set of the completion events it waits for:   *)
(* nullptr is the empty set and Fence::Merge is the union.                 *)
(*                                                                         *)
(* The compositor thread calls HandleToneMap and PostCommit alternately,   *)
(* PostCommit with the layer stack HandleToneMap was given.  Terminate may *)
(* be called between any two of them; it leaves no session, so that the    *)
(* PostCommit of a frame Terminate interrupted finds nothing to do, and    *)
(* the model takes the frame as retired.                                   *)
(***************************************************************************)
EXTENDS Integers, Sequences, FiniteSets, TLC

VARIABLES
  tone_map_sessions_,   \* std::vector<ToneMapSession *>
  fb_session_index_,    \* int, -1 when no frame-buffer session is remembered
  dump_frame_count_,    \* uint32_t
  dump_frame_index_,    \* uint32_t
  allocated,            \* ids of the buffers the allocator holds allocated
  engines,              \* number of live GPU engine handles
  layer_stack,          \* the LayerStack of the frame in flight
  pc,                   \* "idle": HandleToneMap is next; "prepared": PostCommit is next
  log,                  \* what the last operation did (observation only)
  stable_config         \* the configuration every frame of a stable run carries

vars == <<tone_map_sessions_, fb_session_index_, dump_frame_count_, dump_frame_index_,
          allocated, engines, layer_stack, pc, log, stable_config>>

\* ---------------------------------------------------------------- bounds
MaxLayers == 2
MaxDump == 1

\* ------------------------------------------------------------- constants
kNumIntermediateBuffers == 2


\* ---------------------------------------------------------------- fences
NullFence == {}

FenceMerge(a, b) == a \cup b

\* ----------------------------------------------------------- layer inputs
\* The fields of a layer that the tone mapper reads.
LayerConfig(hdr, transfer, secure, format, width, height) ==
  [hdr |-> hdr, transfer |-> transfer, secure |-> secure, format |-> format,
   width |-> width, height |-> height]

CfgA == LayerConfig(TRUE, 1, FALSE, 1, 4, 2)
CfgB == LayerConfig(FALSE, 1, FALSE, 1, 4, 2)
CfgC == LayerConfig(TRUE, 1, FALSE, 1, 8, 2)

Lut3d(entries, dim) == [lutEntries |-> entries, dim |-> dim]

LutValid == Lut3d(TRUE, 17)
LutNoEntries == Lut3d(FALSE, 17)
LutDimZero == Lut3d(TRUE, 0)

\* A layer as the caller hands it over: its own buffer (a client buffer,
\* whose handle id and fd are negative and so differ from every intermediate
\* buffer's) and its own acquire fence.
Layer(i, composition, tone_map, cfg, lut) ==
  [composition |-> composition,
   tone_map |-> tone_map,
   cfg |-> cfg,
   lut_3d |-> lut,
   input_buffer |-> [acquire_fence |-> {<<"acquire", i>>},
                     release_fence |-> NullFence,
                     size |-> cfg.width * cfg.height,
                     fd |-> 0 - (i + 1),
                     handle_id |-> 0 - (i + 1),
                     buffer_id |-> 0 - (i + 1)]]

LayerKind(composition, tone_map, cfg, lut) ==
  [composition |-> composition, tone_map |-> tone_map, cfg |-> cfg, lut_3d |-> lut]

\* The layers a frame is made of.
LayerKinds ==
  {LayerKind("kCompositionGPU", FALSE, CfgA, LutValid),
   LayerKind("kCompositionSDE", FALSE, CfgA, LutValid),
   LayerKind("kCompositionGPU", TRUE, CfgA, LutValid),
   LayerKind("kCompositionSDE", TRUE, CfgA, LutValid),
   LayerKind("kCompositionSDE", TRUE, CfgB, LutValid),
   LayerKind("kCompositionGPUTarget", TRUE, CfgA, LutValid),
   LayerKind("kCompositionGPUTarget", TRUE, CfgB, LutValid),
   LayerKind("kCompositionSDE", TRUE, CfgA, LutNoEntries),
   LayerKind("kCompositionGPUTarget", TRUE, CfgA, LutDimZero)}

BlendSpaces == {1}

RECURSIVE SeqsUpTo(_, _)
SeqsUpTo(S, n) ==
  IF n = 0 THEN {<<>>}
  ELSE LET shorter == SeqsUpTo(S, n - 1)
       IN shorter \cup {Append(s, x) : s \in {t \in shorter : Len(t) = n - 1}, x \in S}

MakeStack(kinds, blend_cs) ==
  [layers |-> [i \in 1 .. Len(kinds) |->
                 Layer(i - 1, kinds[i].composition, kinds[i].tone_map, kinds[i].cfg,
                       kinds[i].lut_3d)],
   blend_cs |-> blend_cs]

EmptyStack == [layers |-> <<>>, blend_cs |-> 1]

\* ------------------------------------------------- the state machine record
\* The operations are written as operators on a record st of the whole state;
\* each action assigns the variables from the record its operation returns.
NoAllocate ==
  [called |-> FALSE, error |-> "kErrorNone", got |-> <<>>, freed |-> <<>>,
   slots |-> <<>>, request |-> CfgA]

\* What the allocator, the engine factory and MapBuffer do during one
\* HandleToneMap call.  The first failed acquisition ends the call, so one
\* failure point describes them: the session built for layer fail_layer gets
\* no engine (fail_kind = "engine") or has its fail_k-th allocation refused
\* with alloc_error (fail_kind = "alloc").  map_ok: MapBuffer succeeds.
NoFailure == [fail_kind |-> "none", fail_layer |-> 0, fail_k |-> 0,
              alloc_error |-> "kErrorMemory", map_ok |-> TRUE]

NoAcquire ==
  [called |-> FALSE, layer |-> 0, env |-> NoFailure, error |-> "kErrorNone", scans |-> 0,
   before |-> <<>>, after |-> <<>>]

\* The frame a PostCommit retired, as a run of repeated frames sees it.
NoFrame ==
  [kinds |-> <<>>, blend_cs |-> 1, status |-> 0, published |-> {}, repeated |-> FALSE]

NoCompare ==
  [called |-> FALSE, session |-> 0, cfg |-> CfgA, blend_cs |-> 1, result |-> FALSE]

EmptyLog(op) ==
  [op |-> op,
   fb_before |-> -1,            \* fb_session_index_ when PostCommit began
   retired |-> NoFrame,         \* the frame the last PostCommit retired
   status |-> 0,                \* HandleToneMap's return value
   allocs |-> <<>>,             \* ids AllocateBuffer returned, in order
   frees |-> <<>>,              \* ids passed to FreeBuffer, in order
   double_free |-> FALSE,       \* FreeBuffer of a buffer that is not allocated
   engine_creates |-> 0,        \* successful TonemapperFactory_GetInstance calls
   blits |-> {},                \* [layer, session, slot, dst, wait] per blit
   acquires |-> {},             \* layers AcquireToneMapSession was called for
   bound |-> {},                \* <<layer, session index>> per successful acquisition
   published |-> {},            \* <<layer, session index>> per UpdateBuffer
   reused |-> {},               \* indices of the sessions reused
   created |-> {},              \* ids of the sessions created and appended
   destroyed |-> {},            \* [id, acquired, live] per ~ToneMapSession
   terminated |-> FALSE,        \* Terminate was called
   short_circuit |-> -1,        \* layer served by the short-circuit path
   waits |-> 0,                 \* Fence::Wait calls
   waited |-> {},               \* the fences Fence::Wait was called with
   dumps |-> 0,                 \* dumps that got past MapBuffer
   threw |-> FALSE,             \* std::vector::at threw std::out_of_range
   acquire |-> NoAcquire,       \* the last failed AcquireToneMapSession
   compare |-> NoCompare,       \* the IsSameToneMapConfig call of a comparison step
   allocate |-> NoAllocate]     \* the last AllocateIntermediateBuffers

State ==
  [sessions |-> tone_map_sessions_, fb |-> fb_session_index_,
   dump_count |-> dump_frame_count_, dump_index |-> dump_frame_index_,
   allocated |-> allocated, engines |-> engines, layers |-> layer_stack.layers,
   log |-> log]

\* ------------------------------------------------------- buffer allocator
NullHandle == [id |-> 0, unaligned_width |-> 0, unaligned_height |-> 0]

EmptyBufferInfo ==
  [buffer_config |-> [width |-> 0, height |-> 0, format |-> 0, secure |-> FALSE,
                      gfx_client |-> FALSE],
   alloc_buffer_info |-> [size |-> 0, fd |-> 0 - 1, id |-> 0],
   private_data |-> NullHandle]

\* The allocator names a new buffer by the least id not in use.
FreshId(used) ==
  CHOOSE i \in 1 .. (Cardinality(used) + 1) :
    i \notin used /\ \A j \in 1 .. (i - 1) : j \in used

\* BufferAllocator::AllocateBuffer: on failure nothing is allocated and the
\* BufferInfo keeps no handle.
AllocateBuffer(st, info, fail, err) ==
  IF fail
    THEN [st |-> st, info |-> info, error |-> err]
    ELSE LET id == FreshId(st.allocated)
         IN [st |-> [st EXCEPT !.allocated = @ \cup {id}, !.log.allocs = Append(@, id)],
             info |-> [info EXCEPT
                         !.private_data = [id |-> id,
                                           unaligned_width |-> info.buffer_config.width,
                                           unaligned_height |-> info.buffer_config.height],
                         !.alloc_buffer_info = [size |-> info.buffer_config.width
                                                           * info.buffer_config.height,
                                                fd |-> id, id |-> id]],
             error |-> "kErrorNone"]

\* BufferAllocator::FreeBuffer: releases the buffer and clears the BufferInfo's
\* handle and descriptor.
FreeBuffer(st, info) ==
  [st |-> [st EXCEPT !.allocated = @ \ {info.private_data.id},
                     !.log.frees = Append(@, info.private_data.id),
                     !.log.double_free = @ \/ info.private_data.id \notin st.allocated],
   info |-> [info EXCEPT !.private_data = NullHandle,
                         !.alloc_buffer_info = EmptyBufferInfo.alloc_buffer_info]]

GetUnalignedWidth(handle) == handle.unaligned_width

GetUnalignedHeight(handle) == handle.unaligned_height

\* ---------------------------------------------------------- ToneMapSession
TonemapType(hdr) == IF hdr THEN "TONEMAP_FORWARD" ELSE "TONEMAP_INVERSE"

NoToneMapConfig ==
  [type |-> "TONEMAP_INVERSE", blend_cs |-> 0, transfer |-> 0, secure |-> FALSE,
   format |-> 0]

\* ToneMapSession::ToneMapSession.  gpu_tone_mapper_ is 1 when the session
\* holds an engine handle and 0 (NULL) when it holds none.
NewToneMapSession ==
  [tone_map_config_ |-> NoToneMapConfig,
   buffer_info_ |-> [i \in 1 .. kNumIntermediateBuffers |-> EmptyBufferInfo],
   release_fence_ |-> [i \in 1 .. kNumIntermediateBuffers |-> NullFence],
   current_buffer_index_ |-> 0,
   gpu_tone_mapper_ |-> 0,
   acquired_ |-> FALSE,
   layer_index_ |-> 0 - 1]

\* Every slot is handed to the allocator, whether it holds a buffer or not.
RECURSIVE Mutant_FreeLoop_NoCheck(_, _, _)
Mutant_FreeLoop_NoCheck(st, s, i) ==
  IF i >= kNumIntermediateBuffers THEN [st |-> st, s |-> s]
  ELSE LET r == FreeBuffer(st, s.buffer_info_[i + 1])
       IN Mutant_FreeLoop_NoCheck(r.st, [s EXCEPT !.buffer_info_[i + 1] = r.info], i + 1)

RECURSIVE FreeLoop(_, _, _)
FreeLoop(st, s, i) ==
  IF i >= kNumIntermediateBuffers THEN [st |-> st, s |-> s]
  ELSE IF s.buffer_info_[i + 1].private_data # NullHandle
    THEN LET r == FreeBuffer(st, s.buffer_info_[i + 1])
         IN FreeLoop(r.st, [s EXCEPT !.buffer_info_[i + 1] = r.info], i + 1)
    ELSE FreeLoop(st, s, i + 1)

FreeIntermediateBuffers(st, s) == FreeLoop(st, s, 0)

\* Lines 123-126: a is what AllocateBuffer returned for slot i.
RECURSIVE AllocateLoop(_, _, _, _, _, _)
RolledBack(f, error) == [st |-> f.st, s |-> f.s, error |-> error]

\* The error is returned without freeing what the call allocated.
Mutant_AllocateNext_NoRollback(a, s, layer, i, fail_k, err) ==
  IF a.error # "kErrorNone"
    THEN [st |-> a.st, s |-> [s EXCEPT !.buffer_info_[i + 1] = a.info], error |-> a.error]
    ELSE AllocateLoop(a.st, [s EXCEPT !.buffer_info_[i + 1] = a.info], layer, i + 1,
                      fail_k, err)

AllocateNext(a, s, layer, i, fail_k, err) ==
  IF a.error # "kErrorNone"
    THEN RolledBack(FreeIntermediateBuffers(a.st, [s EXCEPT !.buffer_info_[i + 1] = a.info]),
                    a.error)
    ELSE AllocateLoop(a.st, [s EXCEPT !.buffer_info_[i + 1] = a.info], layer, i + 1,
                      fail_k, err)

\* Lines 115-127, from slot i on.
AllocateLoop(st, s, layer, i, fail_k, err) ==
  IF i >= kNumIntermediateBuffers THEN [st |-> st, s |-> s, error |-> "kErrorNone"]
  ELSE AllocateNext(
         AllocateBuffer(st,
                        [s.buffer_info_[i + 1] EXCEPT
                           !.buffer_config = [width |-> layer.cfg.width,
                                              height |-> layer.cfg.height,
                                              format |-> layer.cfg.format,
                                              secure |-> layer.cfg.secure,
                                              gfx_client |-> TRUE]],
                        fail_k = i + 1, err),
         s, layer, i, fail_k, err)

\* The call's record in the log: what it allocated, what it freed and the
\* slots it left.
AllocateResult(st, r, layer) ==
  [r EXCEPT !.st.log.frees = st.log.frees \o r.st.log.frees,
            !.st.log.allocs = st.log.allocs \o r.st.log.allocs,
            !.st.log.allocate = [called |-> TRUE, error |-> r.error,
                                 got |-> r.st.log.allocs,
                                 freed |-> r.st.log.frees,
                                 slots |-> r.s.buffer_info_,
                                 request |-> layer.cfg]]

\* fail_k = k > 0: the allocator fails the k-th allocation of the call with err.
AllocateIntermediateBuffers(st, s, layer, fail_k, err) ==
  AllocateResult(st,
                 AllocateLoop([st EXCEPT !.log.frees = <<>>, !.log.allocs = <<>>],
                              s, layer, 0, fail_k, err),
                 layer)

\* A session object is named, in the log, by the id of its first buffer
\* (0 while it has none).
SessionId(s) == s.buffer_info_[1].private_data.id

\* The destructor deletes the engine and forgets the buffers.
Mutant_DeleteSession_NoFree(st, s, live) ==
  [st EXCEPT !.engines = @ - s.gpu_tone_mapper_,
             !.log.destroyed = @ \cup {[id |-> SessionId(s), acquired |-> s.acquired_,
                                        live |-> live]}]

\* ToneMapSession::~ToneMapSession: kCodeDestroy deletes the engine, then the
\* buffers are freed.  live: the session was in tone_map_sessions_.
DeleteSession(st, s, live) ==
  LET st1 == [st EXCEPT !.engines = @ - s.gpu_tone_mapper_,
                        !.log.destroyed = @ \cup {[id |-> SessionId(s), acquired |-> s.acquired_,
                                                   live |-> live]}]
  IN FreeIntermediateBuffers(st1, s).st

UpdateBuffer(s, acquire_fence, buffer) ==
  LET info == s.buffer_info_[s.current_buffer_index_ + 1].alloc_buffer_info
  IN [buffer EXCEPT !.acquire_fence = acquire_fence,
                    !.size = info.size,
                    !.fd = info.fd,
                    !.handle_id = info.id]

\* The fence is recorded for the first slot, whatever the cursor.
Mutant_SetReleaseFence_FirstSlot(s, fd) ==
  [s EXCEPT !.release_fence_[1] = fd]

SetReleaseFence(s, fd) ==
  [s EXCEPT !.release_fence_[s.current_buffer_index_ + 1] = fd]

SetToneMapConfig(s, layer, blend_cs) ==
  [s EXCEPT !.tone_map_config_ = [type |-> TonemapType(layer.cfg.hdr),
                                   blend_cs |-> blend_cs,
                                   transfer |-> layer.cfg.transfer,
                                   secure |-> layer.cfg.secure,
                                   format |-> layer.cfg.format]]

\* The secure flag is not compared.
Mutant_IsSameToneMapConfig_IgnoresSecure(s, layer, blend_cs) ==
  LET handle == s.buffer_info_[1].private_data
  IN /\ TonemapType(layer.cfg.hdr) = s.tone_map_config_.type
     /\ blend_cs = s.tone_map_config_.blend_cs
     /\ layer.cfg.transfer = s.tone_map_config_.transfer
     /\ layer.cfg.format = s.tone_map_config_.format
     /\ layer.cfg.width = GetUnalignedWidth(handle)
     /\ layer.cfg.height = GetUnalignedHeight(handle)

\* The width compared is the buffer's aligned width (a multiple of 8), not
\* its unaligned width.
Mutant_IsSameToneMapConfig_AlignedWidth(s, layer, blend_cs) ==
  LET handle == s.buffer_info_[1].private_data
  IN /\ TonemapType(layer.cfg.hdr) = s.tone_map_config_.type
     /\ blend_cs = s.tone_map_config_.blend_cs
     /\ layer.cfg.transfer = s.tone_map_config_.transfer
     /\ layer.cfg.secure = s.tone_map_config_.secure
     /\ layer.cfg.format = s.tone_map_config_.format
     /\ layer.cfg.width = ((GetUnalignedWidth(handle) + 7) \div 8) * 8
     /\ layer.cfg.height = GetUnalignedHeight(handle)

IsSameToneMapConfig(s, layer, blend_cs) ==
  LET handle == s.buffer_info_[1].private_data
  IN /\ TonemapType(layer.cfg.hdr) = s.tone_map_config_.type
     /\ blend_cs = s.tone_map_config_.blend_cs
     /\ layer.cfg.transfer = s.tone_map_config_.transfer
     /\ layer.cfg.secure = s.tone_map_config_.secure
     /\ layer.cfg.format = s.tone_map_config_.format
     /\ layer.cfg.width = GetUnalignedWidth(handle)
     /\ layer.cfg.height = GetUnalignedHeight(handle)

\* ----------------------------------------------------------- HWCToneMapper
Environments ==
  [fail_kind : {"none"}, fail_layer : {0}, fail_k : {0}, alloc_error : {"kErrorMemory"},
   map_ok : BOOLEAN]
  \cup [fail_kind : {"engine"}, fail_layer : 0 .. (MaxLayers - 1), fail_k : {0},
        alloc_error : {"kErrorMemory"}, map_ok : {TRUE}]
  \cup [fail_kind : {"alloc"}, fail_layer : 0 .. (MaxLayers - 1),
        fail_k : 1 .. kNumIntermediateBuffers,
        alloc_error : {"kErrorMemory", "kErrorResources"}, map_ok : {TRUE}]

SessionIds(sessions) == {SessionId(sessions[k]) : k \in 1 .. Len(sessions)}

\* The scan keeps going after a match, so the last session that can be reused
\* is the one taken.
RECURSIVE Mutant_FirstMatch_LastMatch(_, _, _, _)
Mutant_FirstMatch_LastMatch(sessions, layer, blend_cs, i) ==
  IF i >= Len(sessions) THEN i
  ELSE IF /\ ~sessions[i + 1].acquired_
          /\ IsSameToneMapConfig(sessions[i + 1], layer, blend_cs)
          /\ Mutant_FirstMatch_LastMatch(sessions, layer, blend_cs, i + 1) >= Len(sessions)
    THEN i
    ELSE Mutant_FirstMatch_LastMatch(sessions, layer, blend_cs, i + 1)

\* The index of the first session the scan of lines 346-355 reuses, or
\* Len(sessions) when it reuses none.
RECURSIVE FirstMatch(_, _, _, _)
FirstMatch(sessions, layer, blend_cs, i) ==
  IF i >= Len(sessions) THEN i
  ELSE IF ~sessions[i + 1].acquired_ /\ IsSameToneMapConfig(sessions[i + 1], layer, blend_cs)
    THEN i
    ELSE FirstMatch(sessions, layer, blend_cs, i + 1)

\* The session is pushed into the collection before its buffers are checked
\* and stays there when the allocation failed.
Mutant_AppendSession_KeepsFailed(a) ==
  IF a.error # "kErrorNone"
    THEN [st |-> [a.st EXCEPT !.sessions = Append(@, a.s)],
          error |-> a.error, session_index |-> 0]
    ELSE [st |-> [a.st EXCEPT !.sessions = Append(@, [a.s EXCEPT !.acquired_ = TRUE]),
                              !.log.created = @ \cup {SessionId(a.s)}],
          error |-> "kErrorNone",
          session_index |-> Len(a.st.sessions)]

\* Lines 374-385: a is what AllocateIntermediateBuffers returned.
AppendSession(a) ==
  IF a.error # "kErrorNone"
    THEN [st |-> DeleteSession(a.st, a.s, FALSE), error |-> a.error, session_index |-> 0]
    ELSE [st |-> [a.st EXCEPT !.sessions = Append(@, [a.s EXCEPT !.acquired_ = TRUE]),
                              !.log.created = @ \cup {SessionId(a.s)}],
          error |-> "kErrorNone",
          session_index |-> Len(a.st.sessions)]

\* Lines 357-385: no session can be reused, so one is built.
CreateToneMapSession(st, layer, i, blend_cs, env) ==
  IF env.fail_kind = "engine" /\ env.fail_layer = i
    THEN [st |-> DeleteSession(st, SetToneMapConfig(NewToneMapSession, layer, blend_cs),
                               FALSE),
          error |-> "kErrorNotSupported", session_index |-> 0]
    ELSE AppendSession(
           AllocateIntermediateBuffers(
             [st EXCEPT !.engines = @ + 1, !.log.engine_creates = @ + 1],
             [SetToneMapConfig(NewToneMapSession, layer, blend_cs)
                EXCEPT !.gpu_tone_mapper_ = 1],
             layer,
             IF env.fail_kind = "alloc" /\ env.fail_layer = i THEN env.fail_k ELSE 0,
             env.alloc_error))

\* The reused session keeps its cursor.
Mutant_ReuseSession_NoAdvance(st, m) ==
  [st |-> [st EXCEPT !.sessions[m + 1].acquired_ = TRUE,
                     !.log.reused = @ \cup {m}],
   error |-> "kErrorNone", session_index |-> m, scans |-> m + 1]

\* Lines 349-353: session m is reused.
ReuseSession(st, m) ==
  [st |-> [st EXCEPT !.sessions[m + 1].current_buffer_index_ =
                        (@ + 1) % kNumIntermediateBuffers,
                     !.sessions[m + 1].acquired_ = TRUE,
                     !.log.reused = @ \cup {m}],
   error |-> "kErrorNone", session_index |-> m, scans |-> m + 1]

\* Lines 345-385: m is the first session that can be reused.
ReuseOrCreate(st, layer, i, blend_cs, env, m) ==
  IF m < Len(st.sessions)
    THEN ReuseSession(st, m)
    ELSE [scans |-> m] @@ CreateToneMapSession(st, layer, i, blend_cs, env)

\* The call's record in the log; r is what the call returns.
AcquireResult(st, i, env, r) ==
  IF r.error = "kErrorNone"
    THEN [st |-> [r.st EXCEPT !.log.bound = @ \cup {<<i, r.session_index>>}],
          error |-> r.error, session_index |-> r.session_index]
    ELSE [st |-> [r.st EXCEPT !.log.acquire = [called |-> TRUE, layer |-> i, env |-> env,
                                               error |-> r.error,
                                               scans |-> r.scans, before |-> st.sessions,
                                               after |-> r.st.sessions]],
          error |-> r.error, session_index |-> r.session_index]

\* Lines 334-385.  session_index is the caller's variable, 0 when the call
\* leaves it unset.
AcquireToneMapSession(st, layer, i, blend_cs, env) ==
  AcquireResult(
    st, i, env,
    IF ~layer.lut_3d.lutEntries \/ layer.lut_3d.dim = 0
      THEN [st |-> [st EXCEPT !.log.acquires = @ \cup {i}],
            error |-> "kErrorParameters", session_index |-> 0, scans |-> 0]
      ELSE ReuseOrCreate([st EXCEPT !.log.acquires = @ \cup {i}], layer, i, blend_cs, env,
                         FirstMatch(st.sessions, layer, blend_cs, 0)))

\* A dump that waits for the blit before it looks at the dump-frame count.
Mutant_DumpToneMapOutput_WaitsFirst(st, acquire_fd, env) ==
  LET st1 == [st EXCEPT !.log.waits = @ + 1, !.log.waited = @ \cup {acquire_fd}]
  IN IF st.dump_count = 0 \/ ~env.map_ok THEN st1
     ELSE [st1 EXCEPT !.dump_count = @ - 1, !.dump_index = @ + 1, !.log.dumps = @ + 1]

\* A dump that gives up the frame-buffer session when MapBuffer fails.
Mutant_DumpToneMapOutput_MapFailureResets(st, acquire_fd, env) ==
  IF st.dump_count = 0 THEN st
  ELSE IF ~env.map_ok THEN [st EXCEPT !.fb = -1, !.log.waits = @ + 1]
       ELSE [st EXCEPT !.dump_count = @ - 1, !.dump_index = @ + 1,
                       !.log.waits = @ + 1, !.log.dumps = @ + 1]

\* Lines 292-332.  The dump waits on the blit's fence, maps the buffer and
\* writes the file; only the counters are state.
DumpToneMapOutput(st, acquire_fd, env) ==
  IF st.dump_count = 0 THEN st
  ELSE LET st1 == [st EXCEPT !.log.waits = @ + 1,
                             !.log.waited = @ \cup {acquire_fd}]
       IN IF ~env.map_ok THEN st1
          ELSE [st1 EXCEPT !.dump_count = @ - 1, !.dump_index = @ + 1,
                           !.log.dumps = @ + 1]

\* Lines 230-247 with the kCodeBlit task of lines 90-100: session k serves
\* layer i.
ToneMap(st, i, k, env) ==
  LET session == st.sessions[k + 1]
      layer == st.layers[i + 1]
      buffer_index == session.current_buffer_index_
      merged == FenceMerge(session.release_fence_[buffer_index + 1],
                           layer.input_buffer.acquire_fence)
      dst == session.buffer_info_[buffer_index + 1].private_data.id
      fence == {<<"tonemap", dst>>}
      st1 == [st EXCEPT !.log.blits = @ \cup {[layer |-> i, session |-> k,
                                                slot |-> buffer_index, dst |-> dst,
                                                src |-> layer.input_buffer.buffer_id,
                                                wait |-> merged]}]
      st2 == DumpToneMapOutput(st1, fence, env)
  IN [st2 EXCEPT !.layers[i + 1].input_buffer = UpdateBuffer(session, fence, @),
                 !.log.published = @ \cup {<<i, k>>}]

RECURSIVE TerminateLoop(_)
TerminateLoop(st) ==
  IF st.sessions = <<>> THEN st
  ELSE LET n == Len(st.sessions)
       IN TerminateLoop([DeleteSession(st, st.sessions[n], TRUE) EXCEPT
                           !.sessions = SubSeq(st.sessions, 1, n - 1)])

\* Lines 276-284.
TerminateOp(st) ==
  LET st0 == [st EXCEPT !.log.terminated = TRUE]
  IN IF Len(st.sessions) # 0
       THEN [TerminateLoop(st0) EXCEPT !.fb = -1]
       ELSE st0

\* The remembered session is not marked acquired.
Mutant_ShortCircuit_NotAcquired(st, i) ==
  [st EXCEPT !.layers[i + 1].input_buffer =
                UpdateBuffer(st.sessions[st.fb + 1], NullFence, @),
             !.sessions[st.fb + 1].layer_index_ = i,
             !.log.short_circuit = i,
             !.log.published = @ \cup {<<i, st.fb>>},
             !.log.status = 0]

\* Lines 199-204: the frame-buffer layer i takes the remembered session's
\* current buffer; no blit.
ShortCircuit(st, i) ==
  LET fb_tone_map_session == st.sessions[st.fb + 1]
  IN [st EXCEPT !.layers[i + 1].input_buffer =
                   UpdateBuffer(fb_tone_map_session, NullFence, @),
                !.sessions[st.fb + 1].layer_index_ = i,
                !.sessions[st.fb + 1].acquired_ = TRUE,
                !.log.short_circuit = i,
                !.log.published = @ \cup {<<i, st.fb>>},
                !.log.status = 0]

\* Lines 207-208 and 211: the frame-buffer layer's session index is
\* remembered, whatever AcquireToneMapSession returned.
RememberFrameBuffer(layer, a) ==
  IF layer.composition = "kCompositionGPUTarget"
    THEN [a EXCEPT !.st.fb = a.session_index]
    ELSE a

AcquireForLayer(st, layer, i, blend_cs, env) ==
  RememberFrameBuffer(layer, AcquireToneMapSession(st, layer, i, blend_cs, env))

BindLayer(st, k, i) == [st EXCEPT !.sessions[k + 1].layer_index_ = i]

RECURSIVE HandleLoop(_, _, _, _, _)
\* Lines 215-224: a is what the acquisition for layer i returned.
HandleAcquired(a, i, count, blend_cs, env) ==
  IF a.error # "kErrorNone"
    THEN [TerminateOp(a.st) EXCEPT !.log.status = -1]
    ELSE HandleLoop(BindLayer(ToneMap(a.st, i, a.session_index, env), a.session_index, i),
                    i + 1, count, blend_cs, env)

\* Lines 190-224 for the tone-map-flagged layer i; count is gpu_count.
HandleLayer(st, layer, i, count, blend_cs, env) ==
  IF /\ layer.composition = "kCompositionGPUTarget"
     /\ count = 0
     /\ st.sessions # <<>>
     /\ st.fb >= 0
    THEN IF st.fb >= Len(st.sessions)
           THEN [st EXCEPT !.log.threw = TRUE]
           ELSE ShortCircuit(st, i)
    ELSE HandleAcquired(AcquireForLayer(st, layer, i, blend_cs, env), i, count, blend_cs, env)

\* Lines 183-227, from layer i on.
HandleLoop(st, i, gpu_count, blend_cs, env) ==
  IF i >= Len(st.layers) THEN [st EXCEPT !.log.status = 0]
  ELSE IF ~st.layers[i + 1].tone_map
    THEN HandleLoop(st, i + 1,
                    IF st.layers[i + 1].composition = "kCompositionGPU"
                      THEN gpu_count + 1 ELSE gpu_count,
                    blend_cs, env)
    ELSE HandleLayer(st, st.layers[i + 1], i,
                     IF st.layers[i + 1].composition = "kCompositionGPU"
                       THEN gpu_count + 1 ELSE gpu_count,
                     blend_cs, env)

HandleToneMap(st, blend_cs, env) == HandleLoop(st, 0, 0, blend_cs, env)

\* The remembered index is not moved down when a session below it is erased.
Mutant_AfterErase_NoShift(fb, deleted_session) ==
  IF deleted_session = fb THEN -1 ELSE fb

\* Lines 265-271: the remembered index after the session at index
\* deleted_session was erased.
AfterErase(fb, deleted_session) ==
  IF deleted_session = fb THEN -1
  ELSE IF deleted_session < fb THEN fb - 1
  ELSE fb

Erase(seq, i) == SubSeq(seq, 1, i) \o SubSeq(seq, i + 2, Len(seq))

\* The iterator is advanced after an erase too, so the session that follows
\* an erased one is not looked at.
RECURSIVE Mutant_PostCommitLoop_SkipsAfterErase(_, _)
Mutant_PostCommitLoop_SkipsAfterErase(st, it) ==
  IF it >= Len(st.sessions) THEN st
  ELSE
    LET session == st.sessions[it + 1]
    IN IF session.acquired_
         THEN IF session.layer_index_ < 0 \/ session.layer_index_ >= Len(st.layers)
                THEN [st EXCEPT !.log.threw = TRUE]
                ELSE LET layer_buffer == st.layers[session.layer_index_ + 1].input_buffer
                     IN Mutant_PostCommitLoop_SkipsAfterErase(
                          [st EXCEPT !.sessions[it + 1] =
                             [SetReleaseFence(session, layer_buffer.release_fence)
                                EXCEPT !.acquired_ = FALSE]],
                          it + 1)
         ELSE Mutant_PostCommitLoop_SkipsAfterErase(
                [DeleteSession(st, session, TRUE) EXCEPT
                   !.sessions = Erase(st.sessions, it),
                   !.fb = AfterErase(st.fb, it)],
                it + 1)

\* Lines 251-273, the iterator at index it.
RECURSIVE PostCommitLoop(_, _)
PostCommitLoop(st, it) ==
  IF it >= Len(st.sessions) THEN st
  ELSE
    LET session == st.sessions[it + 1]
    IN IF session.acquired_
         THEN IF session.layer_index_ < 0 \/ session.layer_index_ >= Len(st.layers)
                THEN [st EXCEPT !.log.threw = TRUE]
                ELSE LET layer_buffer == st.layers[session.layer_index_ + 1].input_buffer
                     IN PostCommitLoop(
                          [st EXCEPT !.sessions[it + 1] =
                             [SetReleaseFence(session, layer_buffer.release_fence)
                                EXCEPT !.acquired_ = FALSE]],
                          it + 1)
         ELSE PostCommitLoop(
                [DeleteSession(st, session, TRUE) EXCEPT
                   !.sessions = Erase(st.sessions, it),
                   !.fb = AfterErase(st.fb, it)],
                it)

PostCommit(st) == PostCommitLoop(st, 0)

\* The display's commit of the frame: it hands back, per layer, the fence
\* that signals the release of the buffer the layer carried.
DisplayCommit(layers) ==
  [i \in 1 .. Len(layers) |->
     [layers[i] EXCEPT !.input_buffer.release_fence =
                          {<<"release", layers[i].input_buffer.handle_id>>}]]

\* ----------------------------------------------------------- buffer names
\* A buffer id is the allocator's name for a buffer and means nothing else.
\* When a frame is retired the buffers still allocated are renamed 1, 2, ...
\* in the order of the sessions and their slots (a buffer no session holds
\* comes after them), so that states that differ only in the names coincide.
\* The log keeps the names the operation used.
HeldIds(sessions) ==
  [p \in 1 .. (Len(sessions) * kNumIntermediateBuffers) |->
     sessions[((p - 1) \div kNumIntermediateBuffers) + 1]
       .buffer_info_[((p - 1) % kNumIntermediateBuffers) + 1].private_data.id]

NewName(sessions, ids, id) ==
  LET held == HeldIds(sessions)
      stray == {x \in ids : \A p \in DOMAIN held : held[p] # x}
  IN IF id = 0 THEN 0
     ELSE IF \E p \in DOMAIN held : held[p] = id
       THEN CHOOSE p \in DOMAIN held : held[p] = id /\ \A q \in 1 .. (p - 1) : held[q] # id
     ELSE IF id \in stray
       THEN Len(held) + Cardinality({x \in stray : x <= id})
     ELSE 0 - id

RenameBuffers(st) ==
  LET name(id) == NewName(st.sessions, st.allocated, id)
      info(b) == [b EXCEPT !.private_data.id = name(@),
                           !.alloc_buffer_info.id = name(@),
                           !.alloc_buffer_info.fd = IF @ < 0 THEN @ ELSE name(@)]
      fence(f) == {<<e[1], IF e[1] = "acquire" THEN e[2] ELSE name(e[2])>> : e \in f}
      session(s) == [s EXCEPT
                       !.buffer_info_ = [j \in DOMAIN @ |-> info(@[j])],
                       !.release_fence_ = [j \in DOMAIN @ |-> fence(@[j])]]
  IN [st EXCEPT !.sessions = [k \in DOMAIN @ |-> session(@[k])],
                !.allocated = {name(x) : x \in @}]

\* ----------------------------------------------------------------- actions
Constructed ==
  /\ tone_map_sessions_ = <<>>
  /\ fb_session_index_ = -1
  /\ dump_frame_count_ = 0
  /\ dump_frame_index_ = 0
  /\ allocated = {}
  /\ engines = 0
  /\ layer_stack = EmptyStack
  /\ pc = "idle"
  /\ log = EmptyLog("Init")

Init ==
  /\ Constructed
  /\ stable_config = [cfg |-> CfgA, blend_cs |-> 1]

Assign(st) ==
  /\ tone_map_sessions_' = st.sessions
  /\ fb_session_index_' = st.fb
  /\ dump_frame_count_' = st.dump_count
  /\ dump_frame_index_' = st.dump_index
  /\ allocated' = st.allocated
  /\ engines' = st.engines
  /\ log' = st.log
  /\ UNCHANGED stable_config

AssignFrame(st, blend_cs) ==
  /\ Assign(st)
  /\ layer_stack' = [layers |-> st.layers, blend_cs |-> blend_cs]

Stacks == SeqsUpTo(LayerKinds, MaxLayers)

\* l is the log the call starts with.
HandleToneMapFrom(l, kinds, blend_cs, env) ==
  /\ pc = "idle"
  /\ AssignFrame(HandleToneMap([State EXCEPT !.layers = MakeStack(kinds, blend_cs).layers,
                                             !.log = l],
                               blend_cs, env),
                 blend_cs)
  /\ pc' = "prepared"

HandleToneMapCall(kinds, blend_cs, env) ==
  HandleToneMapFrom(EmptyLog("HandleToneMap"), kinds, blend_cs, env)

\* env describes a failure or a dump that can happen in a frame of these
\* layers in this state (any other env leaves the call as NoFailure does).
Relevant(kinds, env) ==
  /\ env.fail_kind # "none" =>
        /\ env.fail_layer < Len(kinds)
        /\ kinds[env.fail_layer + 1].tone_map
  /\ ~env.map_ok => dump_frame_count_ > 0

HandleToneMapStep ==
  \E kinds \in Stacks, blend_cs \in BlendSpaces, env \in Environments :
    /\ Relevant(kinds, env)
    /\ HandleToneMapCall(kinds, blend_cs, env)

\* l is the log the call starts with.
PostCommitFrom(l) ==
  /\ pc = "prepared"
  /\ Assign(RenameBuffers(
              PostCommit([State EXCEPT !.layers = DisplayCommit(layer_stack.layers),
                                       !.log = [l EXCEPT !.fb_before = fb_session_index_]])))
  /\ layer_stack' = EmptyStack
  /\ pc' = "idle"

PostCommitStep == PostCommitFrom(EmptyLog("PostCommit"))

TerminateStep ==
  /\ Assign(TerminateOp([State EXCEPT !.log = EmptyLog("Terminate")]))
  /\ layer_stack' = EmptyStack
  /\ pc' = "idle"

\* Lines 286-290.
SetFrameDumpConfig(count) ==
  /\ pc = "idle"
  /\ dump_frame_count_' = count
  /\ dump_frame_index_' = 0
  /\ log' = EmptyLog("SetFrameDumpConfig")
  /\ UNCHANGED <<tone_map_sessions_, fb_session_index_, allocated, engines, layer_stack, pc,
                 stable_config>>

SetFrameDumpConfigStep == \E count \in 0 .. MaxDump : SetFrameDumpConfig(count)

Next ==
  \/ HandleToneMapStep
  \/ PostCommitStep
  \/ TerminateStep

Spec == Init /\ [][Next]_vars

\* --------------------------------------------------------- runs with dumps
\* Runs in which the frame dump is configured, over frames of fewer kinds of
\* layers.
DumpKinds ==
  {LayerKind("kCompositionGPU", FALSE, CfgA, LutValid),
   LayerKind("kCompositionSDE", TRUE, CfgA, LutValid),
   LayerKind("kCompositionSDE", TRUE, CfgB, LutValid),
   LayerKind("kCompositionGPUTarget", TRUE, CfgA, LutValid)}

DumpHandleToneMapStep ==
  \E kinds \in SeqsUpTo(DumpKinds, MaxLayers), blend_cs \in BlendSpaces,
     env \in Environments :
    /\ Relevant(kinds, env)
    /\ HandleToneMapCall(kinds, blend_cs, env)

DumpNext ==
  \/ DumpHandleToneMapStep
  \/ PostCommitStep
  \/ TerminateStep
  \/ SetFrameDumpConfigStep

DumpSpec == Init /\ [][DumpNext]_vars

\* ------------------------------------------------------------- stable runs
\* Runs in which every frame carries one tone-map-flagged layer of the same
\* configuration (its composition, its place in the stack and the other
\* layers vary), the blend colour space stays and nothing fails.
StableConfigs == [cfg : {CfgA, CfgB, CfgC}, blend_cs : {1, 2}]

StableKinds(cfg) ==
  {LayerKind("kCompositionGPU", FALSE, CfgA, LutValid),
   LayerKind("kCompositionSDE", FALSE, CfgA, LutValid),
   LayerKind("kCompositionGPU", TRUE, cfg, LutValid),
   LayerKind("kCompositionSDE", TRUE, cfg, LutValid),
   LayerKind("kCompositionGPUTarget", TRUE, cfg, LutValid)}

StableStacks(cfg) ==
  {kinds \in SeqsUpTo(StableKinds(cfg), MaxLayers) :
     Cardinality({i \in DOMAIN kinds : kinds[i].tone_map}) = 1}

StableInit ==
  /\ Constructed
  /\ stable_config \in StableConfigs

StableHandleToneMapStep ==
  \E kinds \in StableStacks(stable_config.cfg) :
    HandleToneMapCall(kinds, stable_config.blend_cs, NoFailure)

StableNext ==
  \/ StableHandleToneMapStep
  \/ PostCommitStep

StableSpec == StableInit /\ [][StableNext]_vars

\* ------------------------------------------------- runs of repeated frames
\* Runs in which PostCommit notes the frame it retires (its layers, what
\* HandleToneMap returned and published for it, and whether the frame before
\* it had the same layers), so that a frame can be set against the one
\* before it.
PatternKinds ==
  {LayerKind("kCompositionGPU", FALSE, CfgA, LutValid),
   LayerKind("kCompositionSDE", TRUE, CfgA, LutValid),
   LayerKind("kCompositionSDE", TRUE, CfgB, LutValid),
   LayerKind("kCompositionGPUTarget", TRUE, CfgA, LutValid)}

KindsOf(stack) ==
  [i \in 1 .. Len(stack.layers) |->
     LayerKind(stack.layers[i].composition, stack.layers[i].tone_map,
               stack.layers[i].cfg, stack.layers[i].lut_3d)]

PatternHandleToneMapStep ==
  \E kinds \in SeqsUpTo(PatternKinds, MaxLayers), blend_cs \in BlendSpaces,
     env \in Environments :
    /\ Relevant(kinds, env)
    /\ HandleToneMapFrom([EmptyLog("HandleToneMap") EXCEPT
                            !.retired = IF log.op = "PostCommit" THEN log.retired
                                                                 ELSE NoFrame],
                         kinds, blend_cs, env)

PatternPostCommitStep ==
  PostCommitFrom([EmptyLog("PostCommit") EXCEPT
                    !.retired = [kinds |-> KindsOf(layer_stack),
                                 blend_cs |-> layer_stack.blend_cs,
                                 status |-> log.status,
                                 published |-> log.published,
                                 repeated |-> /\ log.status = 0
                                              /\ log.retired.status = 0
                                              /\ log.retired.kinds = KindsOf(layer_stack)
                                              /\ log.retired.blend_cs
                                                   = layer_stack.blend_cs]])

PatternNext ==
  \/ PatternHandleToneMapStep
  \/ PatternPostCommitStep
  \/ TerminateStep

PatternSpec == Init /\ [][PatternNext]_vars

\* ------------------------------------------------------- comparison runs
\* Runs of frames of one tone-map-flagged layer in which, at any point, a
\* live session is compared with a layer of any configuration.
CompareLayers ==
  {LayerConfig(hdr, transfer, secure, format, width, height) :
     hdr \in BOOLEAN, transfer \in {1, 2}, secure \in BOOLEAN, format \in {1, 2},
     width \in {4, 8}, height \in {2, 4}}

CompareBlendSpaces == {1, 2}

CompareHandleToneMapStep ==
  \E c \in StableConfigs :
    HandleToneMapCall(<<LayerKind("kCompositionSDE", TRUE, c.cfg, LutValid)>>, c.blend_cs,
                      NoFailure)

\* Lines 163-177, called on session k with a layer of configuration cfg.  The
\* call changes nothing but the log, so one call is taken after each
\* operation: a second one would start from the same manager.
IsSameToneMapConfigCall(k, cfg, blend_cs) ==
  /\ log.op # "IsSameToneMapConfig"
  /\ log' = [EmptyLog("IsSameToneMapConfig") EXCEPT
               !.compare = [called |-> TRUE, session |-> k, cfg |-> cfg,
                            blend_cs |-> blend_cs,
                            result |-> IsSameToneMapConfig(
                                         tone_map_sessions_[k + 1],
                                         Layer(0, "kCompositionSDE", TRUE, cfg, LutValid),
                                         blend_cs)]]
  /\ UNCHANGED <<tone_map_sessions_, fb_session_index_, dump_frame_count_,
                 dump_frame_index_, allocated, engines, layer_stack, pc, stable_config>>

IsSameToneMapConfigStep ==
  \E k \in 0 .. (Len(tone_map_sessions_) - 1), cfg \in CompareLayers,
     blend_cs \in CompareBlendSpaces :
    IsSameToneMapConfigCall(k, cfg, blend_cs)

CompareNext ==
  \/ CompareHandleToneMapStep
  \/ PostCommitStep
  \/ IsSameToneMapConfigStep

CompareSpec == Init /\ [][CompareNext]_vars

\* ------------------------------------------------------------------ claims
\* The index of the session bound to layer i in this frame, -1 if there is none.
BoundSession(sessions, i) ==
  IF \E k \in 1 .. Len(sessions) : sessions[k].acquired_ /\ sessions[k].layer_index_ = i
    THEN (CHOOSE k \in 1 .. Len(sessions) :
            sessions[k].acquired_ /\ sessions[k].layer_index_ = i) - 1
    ELSE -1

ToneMapLayers(stack) == {i \in 0 .. (Len(stack.layers) - 1) : stack.layers[i + 1].tone_map}

\* C1: in a stable run there is exactly one live session after every
\* HandleToneMap and every PostCommit, and from the second frame on
\* HandleToneMap binds the layer to session index 0, as the first frame did,
\* and neither allocates a buffer nor creates an engine.
C1_StableOneSession ==
  [][/\ log'.op \in {"HandleToneMap", "PostCommit"} => Len(tone_map_sessions_') = 1
     /\ log'.op = "HandleToneMap" =>
          /\ log'.status = 0
          /\ \A i \in ToneMapLayers(layer_stack') :
               BoundSession(tone_map_sessions_', i) = 0
     /\ (log'.op = "HandleToneMap" /\ log.op = "PostCommit") =>
          /\ log'.allocs = <<>>
          /\ log'.engine_creates = 0
          /\ log'.created = {}]_vars

\* A second or later frame that reused the session of the frame before.
C1_Witness ==
  /\ log.op = "HandleToneMap"
  /\ log.reused # {}
  /\ log.created = {}
  /\ Len(tone_map_sessions_) = 1
  /\ tone_map_sessions_[1].current_buffer_index_ = 1

LiveDestroyed(l) == {d \in l.destroyed : d.live}

Unacquired(sessions) == {k \in 1 .. Len(sessions) : ~sessions[k].acquired_}

\* C2 as claimed: every destruction of a live session happens inside
\* PostCommit, to a session whose acquired flag is false.
C2_DestroyedOnlyInPostCommit ==
  \A d \in LiveDestroyed(log) : log.op = "PostCommit" /\ ~d.acquired

\* C2 as amended: PostCommit destroys exactly the sessions whose acquired flag
\* is false and keeps the others; outside PostCommit live sessions are
\* destroyed only by Terminate (called directly, or by HandleToneMap when an
\* acquisition fails), which leaves no session, whatever the acquired flags.
C2_DestroyedIffUnacquired ==
  [][/\ log'.op = "PostCommit" =>
          /\ \A d \in LiveDestroyed(log') : ~d.acquired
          /\ Cardinality(LiveDestroyed(log')) = Cardinality(Unacquired(tone_map_sessions_))
          /\ Len(tone_map_sessions_') =
               Len(tone_map_sessions_) - Cardinality(Unacquired(tone_map_sessions_))
          /\ ~log'.terminated
     /\ (log'.op # "PostCommit" /\ LiveDestroyed(log') # {}) =>
          /\ log'.terminated
          /\ tone_map_sessions_' = <<>>
          /\ Cardinality(LiveDestroyed(log')) >= Len(tone_map_sessions_)]_vars

\* A PostCommit that destroyed one session and kept another.
C2_Witness ==
  /\ log.op = "PostCommit"
  /\ LiveDestroyed(log) # {}
  /\ tone_map_sessions_ # <<>>

\* C3: after every call of Terminate no session is left and no frame-buffer
\* session is remembered.
C3_TerminateResets ==
  log.terminated => (tone_map_sessions_ = <<>> /\ fb_session_index_ = -1)

\* The place session f of the collection takes once PostCommit has erased the
\* sessions that were not acquired.
PlaceAfterPostCommit(sessions, f) ==
  Cardinality({k \in 1 .. f : sessions[k].acquired_})

\* C4: across a PostCommit the remembered index follows the session it
\* designated: it is the session's new place if the session was kept, -1 if
\* it was destroyed, and unchanged if it designated none.
C4_IndexFollowsSession ==
  [][log'.op = "PostCommit" =>
       IF fb_session_index_ >= 0 /\ fb_session_index_ < Len(tone_map_sessions_)
         THEN IF tone_map_sessions_[fb_session_index_ + 1].acquired_
                THEN /\ fb_session_index_' =
                          PlaceAfterPostCommit(tone_map_sessions_, fb_session_index_)
                     /\ fb_session_index_' < Len(tone_map_sessions_')
                     /\ tone_map_sessions_'[fb_session_index_' + 1].tone_map_config_ =
                          tone_map_sessions_[fb_session_index_ + 1].tone_map_config_
                     /\ tone_map_sessions_'[fb_session_index_' + 1].layer_index_ =
                          tone_map_sessions_[fb_session_index_ + 1].layer_index_
                ELSE fb_session_index_' = -1
         ELSE fb_session_index_' = fb_session_index_]_vars

\* A PostCommit that erased a session below the frame-buffer session and
\* moved the remembered index down with it.
C4_Witness ==
  /\ log.op = "PostCommit"
  /\ LiveDestroyed(log) # {}
  /\ log.fb_before = 1
  /\ fb_session_index_ = 0

ClientBuffer(stack, i) ==
  LET b == stack.layers[i + 1].input_buffer
  IN b.handle_id = 0 - (i + 1) /\ b.fd = 0 - (i + 1) /\ b.acquire_fence = {<<"acquire", i>>}

\* C5: when HandleToneMap fails it returns -1, leaves no session, and leaves
\* every layer of the frame with the buffer and the fence it came with.
C5_FailedFrameNotToneMapped ==
  (log.op = "HandleToneMap" /\ log.acquire.called) =>
    /\ log.status = -1
    /\ tone_map_sessions_ = <<>>
    /\ \A i \in 0 .. (Len(layer_stack.layers) - 1) : ClientBuffer(layer_stack, i)

LutInvalid(layer) == ~layer.lut_3d.lutEntries \/ layer.lut_3d.dim = 0

\* C6: a failed AcquireToneMapSession leaves the collection and every session
\* in it as they were; it fails with kErrorParameters, before any session is
\* compared, when the layer's 3D LUT is absent or has dim 0, with
\* kErrorNotSupported when the factory gives no engine, and with the
\* allocator's error when an allocation fails.
C6_FailedAcquireChangesNothing ==
  log.acquire.called =>
    LET a == log.acquire
        layer == layer_stack.layers[a.layer + 1]
    IN /\ a.after = a.before
       /\ IF LutInvalid(layer)
            THEN a.error = "kErrorParameters" /\ a.scans = 0
            ELSE /\ a.env.fail_layer = a.layer
                 /\ a.env.fail_kind \in {"engine", "alloc"}
                 /\ a.env.fail_kind = "engine" => a.error = "kErrorNotSupported"
                 /\ a.env.fail_kind = "alloc" => a.error = a.env.alloc_error

\* An allocation refused with kErrorResources while a session was live.
C6_Witness ==
  /\ log.acquire.called
  /\ log.acquire.error = "kErrorResources"
  /\ log.acquire.before # <<>>

HeldSet(sessions) == {HeldIds(sessions)[p] : p \in DOMAIN HeldIds(sessions)}

\* C7: after every operation the allocated buffers are exactly the buffers of
\* the live sessions, kNumIntermediateBuffers each, and there is one live
\* engine handle per live session; nothing was freed twice.
C7_NoLeak ==
  /\ allocated = HeldSet(tone_map_sessions_)
  /\ Cardinality(allocated) = kNumIntermediateBuffers * Len(tone_map_sessions_)
  /\ engines = Len(tone_map_sessions_)
  /\ \A k \in 1 .. Len(tone_map_sessions_) : tone_map_sessions_[k].gpu_tone_mapper_ = 1
  /\ ~log.double_free

\* A frame that failed on the last allocation of a new session while another
\* session was live.
C7_Witness ==
  /\ log.acquire.called
  /\ log.acquire.env.fail_kind = "alloc"
  /\ log.acquire.env.fail_k = kNumIntermediateBuffers
  /\ log.acquire.before # <<>>
  /\ log.allocate.error # "kErrorNone"

Range(seq) == {seq[p] : p \in DOMAIN seq}

\* C8: a failed AllocateIntermediateBuffers returns the allocator's error and
\* leaves no slot with a buffer, the k - 1 buffers it had allocated each freed
\* once; a successful one leaves every slot with a buffer of the layer's
\* requested width, height, format and secure flag.
C8_AllOrNothing ==
  log.allocate.called =>
    LET a == log.allocate
    IN IF a.error # "kErrorNone"
         THEN /\ log.acquire.called
              /\ a.error = log.acquire.env.alloc_error
              /\ Len(a.got) = log.acquire.env.fail_k - 1
              /\ \A j \in DOMAIN a.slots : a.slots[j].private_data = NullHandle
              /\ Len(a.freed) = Len(a.got)
              /\ Range(a.freed) = Range(a.got)
              /\ Cardinality(Range(a.freed)) = Len(a.freed)
         ELSE /\ Len(a.got) = kNumIntermediateBuffers
              /\ a.freed = <<>>
              /\ \A j \in DOMAIN a.slots :
                   /\ a.slots[j].private_data.id = a.got[j]
                   /\ a.slots[j].buffer_config.width = a.request.width
                   /\ a.slots[j].buffer_config.height = a.request.height
                   /\ a.slots[j].buffer_config.format = a.request.format
                   /\ a.slots[j].buffer_config.secure = a.request.secure
                   /\ a.slots[j].private_data.unaligned_width = a.request.width
                   /\ a.slots[j].private_data.unaligned_height = a.request.height

\* The allocator refused the last buffer of a session and the earlier ones
\* were rolled back.
C8_Witness ==
  /\ log.allocate.called
  /\ log.allocate.error # "kErrorNone"
  /\ Len(log.allocate.got) = kNumIntermediateBuffers - 1
  /\ log.allocate.freed = log.allocate.got

\* C9: a session created in a frame has cursor 0 after it; a session that
\* AcquireToneMapSession reused has its cursor advanced by one modulo
\* kNumIntermediateBuffers; every other session keeps its cursor through
\* HandleToneMap (with its blits, dumps and short-circuit path), through
\* PostCommit and through SetFrameDumpConfig.
C9_CursorAdvancesOnReuse ==
  [][/\ (log'.op = "HandleToneMap" /\ log'.status = 0) =>
          /\ Len(tone_map_sessions_') >= Len(tone_map_sessions_)
          /\ \A k \in 1 .. Len(tone_map_sessions_') :
               tone_map_sessions_'[k].current_buffer_index_ =
                 IF k > Len(tone_map_sessions_) THEN 0
                 ELSE IF \E b \in log'.bound : b[2] = k - 1
                   THEN (tone_map_sessions_[k].current_buffer_index_ + 1)
                          % kNumIntermediateBuffers
                 ELSE tone_map_sessions_[k].current_buffer_index_
     /\ log'.op = "PostCommit" =>
          \A k \in 1 .. Len(tone_map_sessions_) :
            tone_map_sessions_[k].acquired_ =>
              tone_map_sessions_'[PlaceAfterPostCommit(tone_map_sessions_, k)]
                  .current_buffer_index_
                = tone_map_sessions_[k].current_buffer_index_
     /\ log'.op = "SetFrameDumpConfig" => tone_map_sessions_' = tone_map_sessions_]_vars

\* A frame that reused a session, advancing its cursor past the last slot
\* back to 0, and dumped its output.
C9_Witness ==
  /\ log.op = "HandleToneMap"
  /\ log.status = 0
  /\ log.reused = {0}
  /\ log.dumps > 0
  /\ tone_map_sessions_[1].current_buffer_index_ = 0

Blitted(l, i) == \E b \in l.blits : b.layer = i

GpuBefore(stack, i) ==
  \E j \in 0 .. i : stack.layers[j + 1].composition = "kCompositionGPU"

\* A frame-buffer session is remembered when layer i is reached: the
\* collection is not empty and the index is not -1, in the state the call
\* began in or because an earlier layer of the call acquired a session.
RememberedAt(sessions, fb, stack, i) ==
  /\ sessions # <<>> \/ \E j \in 0 .. (i - 1) : stack.layers[j + 1].tone_map
  /\ fb >= 0 \/ \E j \in 0 .. (i - 1) :
                  /\ stack.layers[j + 1].tone_map
                  /\ stack.layers[j + 1].composition = "kCompositionGPUTarget"

\* C10: when HandleToneMap reaches a tone-map-flagged GPU-target layer i with
\* no GPU-composited layer before it and a frame-buffer session remembered,
\* it takes the short-circuit path; and that path neither acquires a session
\* nor blits for layer i, gives the layer the remembered session's current
\* buffer with no acquire fence, marks the session acquired and bound to i,
\* returns 0 and leaves every later layer as it came.
C10_ShortCircuit ==
  [][log'.op = "HandleToneMap" =>
       /\ \A i \in ToneMapLayers(layer_stack') :
            (/\ layer_stack'.layers[i + 1].composition = "kCompositionGPUTarget"
             /\ ~GpuBefore(layer_stack', i)
             /\ i \in log'.acquires \/ log'.short_circuit = i
             /\ RememberedAt(tone_map_sessions_, fb_session_index_, layer_stack', i))
            => log'.short_circuit = i
       /\ log'.short_circuit >= 0 =>
            LET i == log'.short_circuit
                fb == fb_session_index_'
                session == tone_map_sessions_'[fb + 1]
                info == session.buffer_info_[session.current_buffer_index_ + 1]
                buffer == layer_stack'.layers[i + 1].input_buffer
            IN /\ log'.status = 0
               /\ ~log'.terminated
               /\ i \notin log'.acquires
               /\ ~Blitted(log', i)
               /\ fb >= 0 /\ fb < Len(tone_map_sessions_')
               /\ buffer.acquire_fence = NullFence
               /\ buffer.handle_id = info.private_data.id
               /\ buffer.fd = info.alloc_buffer_info.fd
               /\ buffer.size = info.alloc_buffer_info.size
               /\ session.acquired_
               /\ session.layer_index_ = i
               /\ \A j \in (i + 1) .. (Len(layer_stack'.layers) - 1) :
                    /\ j \notin log'.acquires
                    /\ ~Blitted(log', j)
                    /\ ClientBuffer(layer_stack', j)]_vars

\* A frame whose first layer took the short-circuit path and whose second
\* layer, flagged for tone mapping, was left as it came.
C10_Witness ==
  /\ log.op = "HandleToneMap"
  /\ log.short_circuit = 0
  /\ Len(layer_stack.layers) = 2
  /\ layer_stack.layers[2].tone_map
  /\ log.blits = {}

\* The buffer in slot j of session s.
SlotId(s, j) == s.buffer_info_[j + 1].private_data.id

\* The fence the display hands back for the release of buffer id.
ReleaseOf(id) == {<<"release", id>>}

\* What session k of the collection recorded for slot j before the call; a
\* session the call created has recorded nothing.
RecordedRelease(sessions, k, j) ==
  IF k < Len(sessions) THEN sessions[k + 1].release_fence_[j + 1] ELSE NullFence

SevenEqual(s, cfg, blend_cs) ==
  /\ (cfg.hdr <=> s.tone_map_config_.type = "TONEMAP_FORWARD")
  /\ blend_cs = s.tone_map_config_.blend_cs
  /\ cfg.transfer = s.tone_map_config_.transfer
  /\ (cfg.secure <=> s.tone_map_config_.secure)
  /\ cfg.format = s.tone_map_config_.format
  /\ cfg.width = s.buffer_info_[1].private_data.unaligned_width
  /\ cfg.height = s.buffer_info_[1].private_data.unaligned_height

\* The number of the seven that differ.
Differences(s, cfg, blend_cs) ==
  (IF cfg.hdr <=> s.tone_map_config_.type = "TONEMAP_FORWARD" THEN 0 ELSE 1)
  + (IF blend_cs = s.tone_map_config_.blend_cs THEN 0 ELSE 1)
  + (IF cfg.transfer = s.tone_map_config_.transfer THEN 0 ELSE 1)
  + (IF cfg.secure <=> s.tone_map_config_.secure THEN 0 ELSE 1)
  + (IF cfg.format = s.tone_map_config_.format THEN 0 ELSE 1)
  + (IF cfg.width = s.buffer_info_[1].private_data.unaligned_width THEN 0 ELSE 1)
  + (IF cfg.height = s.buffer_info_[1].private_data.unaligned_height THEN 0 ELSE 1)

\* C12: IsSameToneMapConfig returns true exactly when the layer and the
\* session agree on direction, blend colour space, transfer, secure flag,
\* format, width and height, and the call changes nothing of the manager.
C12_SameIffSevenEqual ==
  [][log'.op = "IsSameToneMapConfig" =>
       /\ log'.compare.result
            <=> SevenEqual(tone_map_sessions_[log'.compare.session + 1], log'.compare.cfg,
                           log'.compare.blend_cs)
       /\ log'.compare.result
            <=> Differences(tone_map_sessions_[log'.compare.session + 1], log'.compare.cfg,
                            log'.compare.blend_cs) = 0
       /\ UNCHANGED <<tone_map_sessions_, fb_session_index_, dump_frame_count_,
                      dump_frame_index_, allocated, engines, layer_stack>>]_vars

\* A comparison that returned false for a layer that differs from the
\* session in the secure flag alone.
C12_Witness ==
  /\ log.op = "IsSameToneMapConfig"
  /\ ~log.compare.result
  /\ Differences(tone_map_sessions_[log.compare.session + 1], log.compare.cfg,
                 log.compare.blend_cs) = 1
  /\ log.compare.cfg.secure # tone_map_sessions_[log.compare.session + 1].tone_map_config_.secure

\* What a call of FreeIntermediateBuffers on session s hands to the allocator.
FreedBy(s) ==
  FreeIntermediateBuffers([State EXCEPT !.log.frees = <<>>], s).st.log.frees

\* Session s after a call of FreeIntermediateBuffers.
AfterFree(s) == FreeIntermediateBuffers(State, s).s

\* C13: no operation frees a buffer that is not allocated or frees one twice;
\* when an allocation fails, the buffers freed in the call are the ones the
\* rollback freed and the ones of the sessions that were live (the destructor
\* of the session being built frees nothing more); and on every live session
\* a second FreeIntermediateBuffers frees nothing.
C13_FreeIdempotent ==
  /\ ~log.double_free
  /\ Cardinality(Range(log.frees)) = Len(log.frees)
  /\ (log.allocate.called /\ log.allocate.error # "kErrorNone") =>
        /\ \E d \in log.destroyed : ~d.live
        /\ Range(log.frees) = Range(log.allocate.freed) \cup HeldSet(log.acquire.before)
        /\ Len(log.frees) = Len(log.allocate.freed)
                              + kNumIntermediateBuffers * Len(log.acquire.before)
  /\ \A k \in 1 .. Len(tone_map_sessions_) :
        /\ Len(FreedBy(tone_map_sessions_[k])) = kNumIntermediateBuffers
        /\ FreedBy(AfterFree(tone_map_sessions_[k])) = <<>>
        /\ AfterFree(AfterFree(tone_map_sessions_[k])) = AfterFree(tone_map_sessions_[k])

\* The second allocation of a session failed while another session was live:
\* the rollback freed one buffer, the destructor ran, Terminate freed the rest.
C13_Witness ==
  /\ log.allocate.called
  /\ log.allocate.error # "kErrorNone"
  /\ Len(log.allocate.freed) = 1
  /\ log.acquire.before # <<>>
  /\ log.terminated
  /\ Len(log.frees) = 1 + kNumIntermediateBuffers * Len(log.acquire.before)

\* The sessions acquired for the layers before layer i in the call.
TakenBefore(l, i) == {q[2] : q \in {b \in l.bound : b[1] < i}}

\* The sessions of the collection the call found that layer i can reuse.
Reusable(sessions, l, stack, i) ==
  {m \in 0 .. (Len(sessions) - 1) :
     /\ ~sessions[m + 1].acquired_
     /\ m \notin TakenBefore(l, i)
     /\ SevenEqual(sessions[m + 1], stack.layers[i + 1].cfg, stack.blend_cs)}

Least(S) == CHOOSE m \in S : \A n \in S : m <= n

\* Every successful AcquireToneMapSession of the call returned the lowest
\* index of a session that is not acquired and matches the layer, or, when
\* there is none, the index of a session appended at the end.
FirstMatchStep ==
  log'.op = "HandleToneMap" =>
    \A b \in log'.bound :
      IF Reusable(tone_map_sessions_, log', layer_stack', b[1]) # {}
        THEN /\ b[2] = Least(Reusable(tone_map_sessions_, log', layer_stack', b[1]))
             /\ b[2] \in log'.reused
        ELSE /\ b[2] = Len(tone_map_sessions_)
                         + Cardinality({e \in TakenBefore(log', b[1]) :
                                          e >= Len(tone_map_sessions_)})
             /\ b[2] \notin log'.reused

\* The frame repeats the layers of the frame retired before it, and both
\* succeeded.
RepeatsRetired ==
  /\ log.op = "HandleToneMap"
  /\ log.status = 0
  /\ log.retired.status = 0
  /\ log.retired.kinds = KindsOf(layer_stack)
  /\ log.retired.blend_cs = layer_stack.blend_cs
  /\ layer_stack.layers # <<>>

\* The place a session at index k of the retired frame took when PostCommit
\* erased the sessions the frame had not acquired.
PlaceOfRetired(frame, k) == Cardinality({p[2] : p \in {q \in frame.published : q[2] < k}})

TargetLayers(stack) ==
  {i \in 1 .. Len(stack.layers) : stack.layers[i].composition = "kCompositionGPUTarget"}

\* C14 as claimed: reuse is first-match, and in a run of frames of the same
\* layers every layer is given the same session index in every frame after
\* the first (here: a layer served in two successive frames after the first
\* has the same index in both).
C14_SameIndexEveryFrame ==
  [][/\ FirstMatchStep
     /\ (RepeatsRetired /\ log.retired.repeated)' =>
          \A p \in log'.retired.published, q \in log'.published :
            p[1] = q[1] => q[2] = p[2]]_vars

\* C14 as amended: reuse is first-match, and a layer served in two successive
\* frames of the same layers (with at most one GPU-composition-target layer)
\* is given the same session object in both: its index in the second frame
\* is the place that session took after the PostCommit between them.
C14_FirstMatchSameSession ==
  [][/\ FirstMatchStep
     /\ (RepeatsRetired /\ Cardinality(TargetLayers(layer_stack)) <= 1)' =>
          \A p \in log'.retired.published, q \in log'.published :
            p[1] = q[1] => q[2] = PlaceOfRetired(log'.retired, p[2])]_vars

\* A repeated frame of two layers of one configuration: each had two sessions
\* to choose from and took the one it had in the frame before.
C14_Witness ==
  /\ RepeatsRetired
  /\ Cardinality(log.reused) = 2
  /\ Cardinality(log.published) = 2
  /\ layer_stack.layers[1].cfg = layer_stack.layers[2].cfg
  /\ \A p \in log.retired.published, q \in log.published :
        p[1] = q[1] => q[2] = PlaceOfRetired(log.retired, p[2])

\* Layer i of the stack is a GPU-composition-target layer.
IsTarget(stack, i) == stack.layers[i + 1].composition = "kCompositionGPUTarget"

\* C15: the remembered frame-buffer session is the one that serves the
\* GPU-composition-target layer: every blit a frame issued with it was for a
\* GPU-composition-target layer, and the buffer the short-circuit path
\* publishes was not written in the frame for a layer that is not one.
C15_FbServesTarget ==
  (log.op = "HandleToneMap" /\ log.status = 0) =>
        /\ \A b \in log.blits :
              b.session = fb_session_index_ => IsTarget(layer_stack, b.layer)
        /\ log.short_circuit >= 0 =>
              \A b \in log.blits :
                b.dst = layer_stack.layers[log.short_circuit + 1].input_buffer.handle_id
                  => IsTarget(layer_stack, b.layer)

\* The state a HandleToneMap step began in and the behaviour of the allocator
\* and the engine factory during it, with the dump switched off:
\* dump_frame_count_ = 0 and MapBuffer succeeding.
StartWithoutDump ==
  [State EXCEPT !.layers = MakeStack(KindsOf(layer_stack'), layer_stack'.blend_cs).layers,
                !.log = EmptyLog("HandleToneMap"),
                !.dump_count = 0]

EnvWithoutDump ==
  IF log'.acquire.called THEN [log'.acquire.env EXCEPT !.map_ok = TRUE] ELSE NoFailure

\* What a HandleToneMap call submits: its status, the manager's sessions and
\* frame-buffer session index, the layers, the buffers and engines held, the
\* blits issued and the descriptors published.
Submission(st) ==
  [status |-> st.log.status, sessions |-> st.sessions, fb |-> st.fb, layers |-> st.layers,
   allocated |-> st.allocated, engines |-> st.engines, blits |-> st.log.blits,
   published |-> st.log.published]

\* C16: the dump never affects frame submission.  Whatever the dump-frame
\* count is and whether MapBuffer succeeds or fails, every HandleToneMap
\* call returns the status, leaves the sessions (configuration, buffers,
\* cursor, acquired flag, bound layer), the frame-buffer session index and the
\* set of allocated buffers, and publishes into every layer the buffer
\* descriptor and the fence, that the same call makes with the dump switched off.
C16_DumpNeverAffectsFrame ==
  [][log'.op = "HandleToneMap" =>
        \A st \in {StartWithoutDump}, env \in {EnvWithoutDump} :
          Submission(State)' = Submission(HandleToneMap(st, layer_stack'.blend_cs, env))]_vars

\* A frame whose dump failed to map the buffer, and one whose dump went
\* through, were both submitted with a tone-mapped layer.
C16_Witness ==
  /\ log.op = "HandleToneMap"
  /\ log.status = 0
  /\ log.published # {}
  /\ log.waits > log.dumps
  /\ dump_frame_count_ > 0

\* C17: Fence::Wait is called only by the dump.  A HandleToneMap, PostCommit
\* or Terminate call that begins with the dump-frame count at 0 waits on no
\* fence and leaves the count at 0; any such call lowers the count by one per
\* dump that got past MapBuffer and never below 0, and every fence it waits on
\* is the output fence of a blit of the call.
C17_WaitOnlyInDump ==
  [][log'.op \in {"HandleToneMap", "PostCommit", "Terminate"} =>
        /\ dump_frame_count_ = 0 => (log'.waits = 0 /\ log'.waited = {})
        /\ dump_frame_count_' = dump_frame_count_ - log'.dumps
        /\ dump_frame_count_' >= 0
        /\ log'.dumps <= log'.waits
        /\ log'.waited \subseteq {{<<"tonemap", b.dst>>} : b \in log'.blits}
        /\ log'.op # "HandleToneMap" => log'.waits = 0]_vars

\* A frame of two tone-mapped layers that used up the dump-frame count on the
\* first: the second blit was not waited for.
C17_Witness ==
  /\ log.op = "HandleToneMap"
  /\ log.status = 0
  /\ Cardinality(log.blits) = 2
  /\ log.waits = 1
  /\ log.dumps = 1
  /\ dump_frame_count_ = 0

\* The layers of the frame that carry a buffer of session s.
ServedBy(stack, s) ==
  {i \in 0 .. (Len(stack.layers) - 1) :
     \E j \in 1 .. kNumIntermediateBuffers :
       /\ s.buffer_info_[j].private_data.id # 0
       /\ stack.layers[i + 1].input_buffer.handle_id = s.buffer_info_[j].private_data.id}

\* C18: at the end of a successful HandleToneMap call (on a frame with at most
\* one GPU-composition-target layer) every acquired session is bound to a
\* tone-map-flagged layer of the frame, that layer is the only one that was
\* given a buffer of the session, and no session's buffers were given to two
\* layers.
C18_NoSessionServesTwoLayers ==
  (/\ log.op = "HandleToneMap"
   /\ log.status = 0
   /\ Cardinality(TargetLayers(layer_stack)) <= 1) =>
        \A k \in 1 .. Len(tone_map_sessions_) :
          /\ Cardinality(ServedBy(layer_stack, tone_map_sessions_[k])) <= 1
          /\ tone_map_sessions_[k].acquired_ =>
                /\ tone_map_sessions_[k].layer_index_ \in ToneMapLayers(layer_stack)
                /\ ServedBy(layer_stack, tone_map_sessions_[k])
                     = {tone_map_sessions_[k].layer_index_}

\* C19: after every HandleToneMap, PostCommit and Terminate the frame-buffer
\* session index is -1 or the index of a live session.
C19_FbIndexValid ==
  log.op \in {"HandleToneMap", "PostCommit", "Terminate"} =>
     \/ fb_session_index_ = -1
     \/ (0 <= fb_session_index_ /\ fb_session_index_ < Len(tone_map_sessions_))

\* A HandleToneMap step on a frame with no tone-map-flagged layer returns
\* success and changes nothing: the sessions, the frame-buffer session index,
\* the buffers and engines held, and every layer as the caller handed it over.
FrameWithoutToneMapUnchanged ==
  (log'.op = "HandleToneMap" /\ ToneMapLayers(layer_stack') = {}) =>
      /\ log'.status = 0
      /\ tone_map_sessions_' = tone_map_sessions_
      /\ fb_session_index_' = fb_session_index_
      /\ allocated' = allocated
      /\ engines' = engines
      /\ layer_stack' = MakeStack(KindsOf(layer_stack'), layer_stack'.blend_cs)
      /\ log'.blits = {} /\ log'.published = {} /\ log'.short_circuit = -1

\* The PostCommit step that follows such a frame destroys every live session
\* and leaves no session and no frame-buffer session index.
PostCommitAfterItEmpties ==
  (/\ log.op = "HandleToneMap"
   /\ ToneMapLayers(layer_stack) = {}
   /\ log'.op = "PostCommit") =>
      /\ {d.id : d \in LiveDestroyed(log')} = SessionIds(tone_map_sessions_)
      /\ tone_map_sessions_' = <<>>
      /\ fb_session_index_' = -1

\* C20: HandleToneMap on a layer stack with no tone-map-flagged layer returns
\* success and leaves the manager and the layers unchanged, and the PostCommit
\* that follows destroys every live session, leaving the collection empty and
\* the frame-buffer session index at -1.
C20_FrameWithoutToneMap ==
  [][FrameWithoutToneMapUnchanged /\ PostCommitAfterItEmpties]_vars

\* No call of std::vector::at is out of range.
NoThrow == ~log.threw

====
